---- MODULE Spec2Model ----
(***************************************************************************)
(* climplot: colorbar tick selection and placement (panels.py), level and  *)
(* colour generation (colormaps.py), the style mode (style.py) and         *)
(* plot_ocean_field (maps.py).                                             *)
(*                                                                         *)
(* Numbers are decimal fixed point: the integer m stands for the real      *)
(* m / Scale.  Every value the model handles has at most ten significant   *)
(* digits, so "%.10g" prints it without rounding.  Arithmetic is exact:    *)
(* np.round, np.arange, np.floor and np.ceil give their documented results *)
(* on the decimal values.  The representation error of a binary float, of  *)
(* the order of 1e-16 relative, is below the resolution of the model; it   *)
(* can show only where a quotient is exactly an integer or a value exactly *)
(* halfway between two roundings, and there the model follows exact        *)
(* arithmetic.                                                             *)
(*                                                                         *)
(* matplotlib is used as documented: BoundaryNorm rejects fewer than two   *)
(* boundaries and more colour bins than colours with a ValueError and maps *)
(* a value to the index of its bin plus the offset of the lower arrow;     *)
(* rcParams.update overwrites the keys it is given; rcdefaults restores    *)
(* the built-in defaults.                                                  *)
(***************************************************************************)
EXTENDS Integers, Sequences, FiniteSets, TLC

VARIABLES
    \* a colorbar and the last _thin_colorbar_ticks call made on it
    pc, has_boundaries, boundaries, ticks, max_ticks, min_ticks,
    \* _roundness_score applied to two values
    value, score,
    \* one call of discrete_cmap, auto_levels or log_cmap: arguments, outcome
    \* and results
    fn, ret, vmin, vmax, interval, n_levels, center_on_white, levels,
    per_decade, extend, colors, ncolors,
    \* style.py: the module's mode, matplotlib's rcParams, the last call made,
    \* the last value get_current_mode returned and the for_pdf argument of the
    \* last publication / presentation call
    current_mode, rcParams, last_call, got_mode, last_for_pdf,
    \* one call of bottom_colorbar: its keyword arguments, the span of the data
    \* axes and the position of the final colorbar axes
    min_width, max_width, axes_span, cbar_width, cbar_x0,
    \* one call of plot_ocean_field: position in its body, the arguments method,
    \* wet_mask (<<>> for None) and land_color, the background of the axes, the
    \* caller's data array, the function's own data, what was plotted, and the
    \* steps taken so far
    ocean_pc, method, wet_mask, land_color, facecolor, caller_data, data,
    plotted, steps

tickVars == <<pc, has_boundaries, boundaries, ticks, max_ticks, min_ticks>>
scoreVars == <<value, score>>
levelVars ==
    <<fn, ret, vmin, vmax, interval, n_levels, center_on_white, levels,
      per_decade, extend, colors, ncolors>>
styleVars == <<current_mode, rcParams, last_call, got_mode, last_for_pdf>>
barVars == <<min_width, max_width, axes_span, cbar_width, cbar_x0>>
oceanVars ==
    <<ocean_pc, method, wet_mask, land_color, facecolor, caller_data, data,
      plotted, steps>>
vars == <<tickVars, scoreVars, levelVars, styleVars, barVars, oceanVars>>

----------------------------------------------------------------------------
(* Units and bounds *)

\* one unit of the model is 10^-5
Scale == 10 ^ 5

\* tick values are the multiples of TickStep/Scale up to MaxHalf steps each side
MaxHalf == 3
\* longest boundary array
MaxBoundaries == 6
\* largest max_ticks / min_ticks argument
MaxTicks == 5
\* _roundness_score is applied to d * 10^e units, d <= MaxMantissa, e <= MaxExp
MaxMantissa == 12
MaxExp == 8
\* vmin and vmax are multiples of LevelStep up to MaxLevel steps each side
MaxLevel == 5
\* largest n_levels argument
MaxNLevels == 10

Abs(x) == IF x < 0 THEN -x ELSE x
Max(a, b) == IF a >= b THEN a ELSE b
Min(a, b) == IF a <= b THEN a ELSE b

\* ceil(a / b) for b > 0, any sign of a
CeilDiv(a, b) == -((-a) \div b)

RECURSIVE SumSeq(_)
SumSeq(s) == IF s = <<>> THEN 0 ELSE Head(s) + SumSeq(Tail(s))

Reverse(s) == [i \in 1..Len(s) |-> s[Len(s) + 1 - i]]
Negate(s) == [i \in 1..Len(s) |-> -s[i]]

RECURSIVE SortedSeq(_)
SortedSeq(S) ==
    IF S = {} THEN <<>>
    ELSE LET m == CHOOSE x \in S : \A y \in S : x <= y
         IN  <<m>> \o SortedSeq(S \ {m})

Range(s) == {s[i] : i \in 1..Len(s)}
Last(s) == s[Len(s)]
StrictlyIncreasing(s) == \A i \in 1..(Len(s) - 1) : s[i] < s[i + 1]

----------------------------------------------------------------------------
(* numpy helpers used by panels.py *)

\* np.isclose(a, b): |a - b| <= atol + rtol * |b| with atol = 1e-8, rtol = 1e-5.
\* In units: |a - b| * 10^8 <= Scale + 1000 * |b|, both sides divided by 1000.
IsClose(a, b) == Abs(a - b) <= ((Scale \div 1000) + Abs(b)) \div (10 ^ 5)

\* np.allclose(s, t) for equally long arrays
AllClose(s, t) == \A i \in 1..Len(s) : IsClose(s[i], t[i])

\* np.diff
Diff(s) == [i \in 1..(Len(s) - 1) |-> s[i + 1] - s[i]]

\* s[offset::stride] (offset counted from 0)
Slice(s, offset, stride) ==
    LET n == Len(s)
        k == IF offset >= n THEN 0 ELSE (n - offset + stride - 1) \div stride
    IN  [i \in 1..k |-> s[offset + 1 + (i - 1) * stride]]

\* s[s >= 0] and s[s > 0]
NonNegative(s) == SelectSeq(s, LAMBDA v : v >= 0)
Positive(s) == SelectSeq(s, LAMBDA v : v > 0)

----------------------------------------------------------------------------
(* _roundness_score *)

\* len(s) - len(s.rstrip("0")) for the decimal digits of n > 0
RECURSIVE TrailingZeros(_)
TrailingZeros(n) == IF n % 10 = 0 THEN 1 + TrailingZeros(n \div 10) ELSE 0

\* int(s.rstrip("0")[-1]) for the decimal digits of n > 0
RECURSIVE LastNonZeroDigit(_)
LastNonZeroDigit(n) == IF n % 10 = 0 THEN LastNonZeroDigit(n \div 10) ELSE n % 10

\* last-digit preference: 5 > even > odd
DigitBonus(last) == IF last = 5 THEN 2 ELSE IF last % 2 = 0 THEN 1 ELSE 0

\* variant: the integer tier starting at the score of zero
IntegerTierFromThirty(int_val) ==
    30 + TrailingZeros(int_val) * 3 + DigitBonus(LastNonZeroDigit(int_val))

\* the integer tier: 20 + 3 per trailing zero + last non-zero digit bonus
IntegerTier(int_val) ==
    20 + TrailingZeros(int_val) * 3 + DigitBonus(LastNonZeroDigit(int_val))

\* the digits after the point of "%.10g" % abs_val, for abs_val >= 1e-4 and not
\* an integer: the five fractional digits without their trailing zeros
NDecimals(abs_val) == 5 - TrailingZeros(abs_val % Scale)

FractionTier(abs_val) ==
    Max(1, 10 - NDecimals(abs_val) * 2)
        + DigitBonus(LastNonZeroDigit(abs_val % Scale))

\* "%.10g" switches to exponent notation below 1e-4; a value of the model that
\* small is d * 1e-5 with one digit d and prints as "de-05", without a point
PrintsWithPoint(abs_val) == abs_val * (10 ^ 4) >= Scale

RoundnessScore(v) ==
    IF v = 0 THEN 30
    ELSE LET abs_val == Abs(v)
         IN  IF abs_val % Scale = 0
             THEN IntegerTier(abs_val \div Scale)
             ELSE IF PrintsWithPoint(abs_val)
                  THEN FractionTier(abs_val)
                  ELSE 15

----------------------------------------------------------------------------
(* _is_symmetric, _score_subset, _best_stride_subset, _select_symmetric_ticks *)

IsSymmetric(b) == Len(b) > 2 /\ AllClose(b, Negate(Reverse(b)))

ScoreSubset(subset) ==
    LET gaps == Diff(subset)
        total == SumSeq([i \in 1..Len(subset) |-> RoundnessScore(subset[i])])
    IN  IF Len(gaps) > 0 /\ AllClose(gaps, [i \in 1..Len(gaps) |-> gaps[1]])
        THEN total + 20
        ELSE total

\* the (stride, offset) pairs in the order the two nested loops visit them
RECURSIVE StrideOffsets(_, _, _)
StrideOffsets(stride, offset, last) ==
    IF stride > last THEN <<>>
    ELSE IF offset >= stride THEN StrideOffsets(stride + 1, 0, last)
    ELSE <<(<<stride, offset>>)>> \o StrideOffsets(stride, offset + 1, last)

NoSubset == [found |-> FALSE, score |-> -1, subset |-> <<>>]

\* variant: a later subset of the same score replaces the best one
RECURSIVE ScanLastWins(_, _, _, _, _, _)
ScanLastWins(arr, pairs, k, lo, hi, best) ==
    IF k > Len(pairs) THEN best
    ELSE LET subset == Slice(arr, pairs[k][2], pairs[k][1])
         IN  IF Len(subset) > hi \/ Len(subset) < lo
             THEN ScanLastWins(arr, pairs, k + 1, lo, hi, best)
             ELSE LET sc == ScoreSubset(subset)
                  IN  IF sc >= best.score
                      THEN ScanLastWins(arr, pairs, k + 1, lo, hi,
                                [found |-> TRUE, score |-> sc, subset |-> subset])
                      ELSE ScanLastWins(arr, pairs, k + 1, lo, hi, best)

\* one pass of the stride/offset loops over arr, keeping the first subset of the
\* highest score among those with lo <= len(subset) <= hi
RECURSIVE Scan(_, _, _, _, _, _)
Scan(arr, pairs, k, lo, hi, best) ==
    IF k > Len(pairs) THEN best
    ELSE LET subset == Slice(arr, pairs[k][2], pairs[k][1])
         IN  IF Len(subset) > hi \/ Len(subset) < lo
             THEN Scan(arr, pairs, k + 1, lo, hi, best)
             ELSE LET sc == ScoreSubset(subset)
                  IN  IF sc > best.score
                      THEN Scan(arr, pairs, k + 1, lo, hi,
                                [found |-> TRUE, score |-> sc, subset |-> subset])
                      ELSE Scan(arr, pairs, k + 1, lo, hi, best)

StrideSearch(arr, min_stride, lo, hi) ==
    Scan(arr, StrideOffsets(min_stride, 0, 2 * min_stride), 1, lo, hi, NoSubset)

\* variant: no second search with the minimum relaxed
BestStrideSubsetNoRetry(b, maxt, mint) ==
    LET n == Len(b)
        min_stride == Max(1, CeilDiv(n, maxt))
    IN  StrideSearch(b, min_stride, mint, maxt)

\* returns a record: found = FALSE stands for None
BestStrideSubset(b, maxt, mint) ==
    LET n == Len(b)
        min_stride == Max(1, CeilDiv(n, maxt))
        first == StrideSearch(b, min_stride, mint, maxt)
    IN  IF first.found THEN first
        ELSE StrideSearch(b, min_stride, 2, maxt)

\* variant: the negative side negated but not reversed
SelectSymmetricTicksUnreversed(b, maxt, mint) ==
    LET pos == NonNegative(b)
        has_zero == IF Len(pos) > 0 THEN IsClose(pos[1], 0) ELSE FALSE
        half_max == IF has_zero THEN (maxt - 1) \div 2 ELSE maxt \div 2
        pos_only == Positive(pos)
        n == Len(pos_only)
        min_stride == IF half_max > 0 THEN Max(1, CeilDiv(n, half_max)) ELSE 1
        best == StrideSearch(pos_only, min_stride, 1, half_max)
        best_pos == IF best.found THEN best.subset ELSE pos_only
        neg == Negate(best_pos)
    IN  IF Len(pos_only) = 0 THEN b
        ELSE IF has_zero THEN neg \o <<0>> \o best_pos
        ELSE neg \o best_pos

SelectSymmetricTicks(b, maxt, mint) ==
    LET pos == NonNegative(b)
        has_zero == IF Len(pos) > 0 THEN IsClose(pos[1], 0) ELSE FALSE
        half_max == IF has_zero THEN (maxt - 1) \div 2 ELSE maxt \div 2
        pos_only == Positive(pos)
        n == Len(pos_only)
        min_stride == IF half_max > 0 THEN Max(1, CeilDiv(n, half_max)) ELSE 1
        best == StrideSearch(pos_only, min_stride, 1, half_max)
        best_pos == IF best.found THEN best.subset ELSE pos_only
        neg == Negate(Reverse(best_pos))
    IN  IF Len(pos_only) = 0 THEN b
        ELSE IF has_zero THEN neg \o <<0>> \o best_pos
        ELSE neg \o best_pos

\* np.round(np.linspace(0, len - 1, maxt)).astype(int)[i], i counted from 0:
\* i * (len - 1) / (maxt - 1) rounded half to even
RoundHalfEven(num, den) ==
    LET q == num \div den
        r == num % den
    IN  IF 2 * r < den THEN q
        ELSE IF 2 * r > den THEN q + 1
        ELSE IF q % 2 = 0 THEN q ELSE q + 1

LinspaceIndex(i, len, maxt) ==
    IF maxt = 1 THEN 0 ELSE RoundHalfEven(i * (len - 1), maxt - 1)

\* variant: the selection made also when no boundary needs to go
ThinnedTicksAlwaysSelecting(has_b, b, t, maxt, mint) ==
    IF has_b
    THEN IF IsSymmetric(b) THEN SelectSymmetricTicks(b, maxt, mint)
         ELSE LET subset == BestStrideSubset(b, maxt, mint)
              IN  IF subset.found THEN subset.subset ELSE t
    ELSE IF Len(t) <= maxt THEN t
         ELSE [i \in 1..maxt |-> t[LinspaceIndex(i - 1, Len(t), maxt) + 1]]

\* the ticks of the colorbar after _thin_colorbar_ticks(cbar, maxt, mint), for a
\* colorbar whose norm has the boundaries b (has_b) or none, and the ticks t
ThinnedTicks(has_b, b, t, maxt, mint) ==
    IF has_b
    THEN IF Len(b) <= maxt THEN b
         ELSE IF IsSymmetric(b) THEN SelectSymmetricTicks(b, maxt, mint)
         ELSE LET subset == BestStrideSubset(b, maxt, mint)
              IN  IF subset.found THEN subset.subset ELSE t
    ELSE IF Len(t) <= maxt THEN t
         ELSE [i \in 1..maxt |-> t[LinspaceIndex(i - 1, Len(t), maxt) + 1]]

----------------------------------------------------------------------------
(* matplotlib's rcParams as style.py uses them.  A value is a number, a     *)
(* pair of numbers (figure.figsize, in units) or a name; all three are      *)
(* written as a record of one shape.                                       *)

Num(n) == [name |-> "", at |-> <<n>>]
Pair(a, b) == [name |-> "", at |-> <<a, b>>]
Name(str) == [name |-> str, at |-> <<>>]

\* the keys of the two settings tables, and font.family
SettingsKeys ==
    {"font.size", "axes.labelsize", "axes.titlesize", "xtick.labelsize",
     "ytick.labelsize", "legend.fontsize", "figure.figsize", "figure.dpi",
     "savefig.dpi", "savefig.bbox", "savefig.facecolor", "axes.linewidth",
     "grid.linewidth", "lines.linewidth", "pdf.fonttype"}

RcKeys == SettingsKeys \cup {"font.family"}

\* what plt.rcdefaults() restores: matplotlib's built-in defaults
rcParamsDefault ==
    [k \in RcKeys |->
        CASE k = "font.size" -> Num(10)
          [] k = "axes.labelsize" -> Name("medium")
          [] k = "axes.titlesize" -> Name("large")
          [] k = "xtick.labelsize" -> Name("medium")
          [] k = "ytick.labelsize" -> Name("medium")
          [] k = "legend.fontsize" -> Name("medium")
          [] k = "figure.figsize" -> Pair((64 * Scale) \div 10, (48 * Scale) \div 10)
          [] k = "figure.dpi" -> Num(100)
          [] k = "savefig.dpi" -> Name("figure")
          [] k = "savefig.bbox" -> Name("None")
          [] k = "savefig.facecolor" -> Name("auto")
          [] k = "axes.linewidth" -> Num((8 * Scale) \div 10)
          [] k = "grid.linewidth" -> Num((8 * Scale) \div 10)
          [] k = "lines.linewidth" -> Num((15 * Scale) \div 10)
          [] k = "pdf.fonttype" -> Num(3)
          [] k = "font.family" -> Name("sans-serif")]

----------------------------------------------------------------------------
(* The colorbar: created with a norm, then thinned once (add_colorbar and  *)
(* bottom_colorbar call _thin_colorbar_ticks once on the colorbar they     *)
(* make).                                                                  *)

TickStep == Scale \div 2

\* multiples of 0.5, and 1.00001, which np.allclose takes for the mirror of -1
TickValues ==
    {k * TickStep : k \in (-MaxHalf)..MaxHalf} \cup {Scale + 1}

BoundaryArrays ==
    {SortedSeq(S) : S \in {T \in SUBSET TickValues :
                              Cardinality(T) >= 2 /\ Cardinality(T) <= MaxBoundaries}}

IdleTicks ==
    /\ pc = "none" /\ has_boundaries = FALSE /\ boundaries = <<>>
    /\ ticks = <<>> /\ max_ticks = 0 /\ min_ticks = 0
IdleScore == value = <<>> /\ score = <<>>
IdleLevels ==
    /\ fn = "none" /\ ret = "none" /\ vmin = 0 /\ vmax = 0 /\ interval = 0
    /\ n_levels = 0 /\ center_on_white = FALSE /\ levels = <<>>
    /\ per_decade = 0 /\ extend = "both" /\ colors = <<>> /\ ncolors = 0
\* style.py imported and never called
IdleStyle ==
    /\ current_mode = "None" /\ rcParams = rcParamsDefault
    /\ last_call = "none" /\ got_mode = "none" /\ last_for_pdf = FALSE
IdleBar ==
    /\ min_width = 0 /\ max_width = 0 /\ axes_span = 0
    /\ cbar_width = 0 /\ cbar_x0 = 0
\* nothing plotted
NoPlot == [func |-> "none", data |-> <<>>]
IdleOcean ==
    /\ ocean_pc = "none" /\ method = "none" /\ wet_mask = <<>>
    /\ land_color = "none" /\ facecolor = "white"
    /\ caller_data = <<>> /\ data = <<>> /\ plotted = NoPlot /\ steps = <<>>

\* a BoundaryNorm colorbar starts with a tick on every boundary; the colorbar
\* of another norm starts with the ticks its locator generated
InitTicks ==
    /\ pc = "created"
    /\ has_boundaries \in BOOLEAN
    /\ ticks \in BoundaryArrays
    /\ boundaries = IF has_boundaries THEN ticks ELSE <<>>
    /\ max_ticks = 0 /\ min_ticks = 0
    /\ IdleScore /\ IdleLevels /\ IdleStyle /\ IdleBar /\ IdleOcean

ThinColorbarTicks ==
    /\ pc = "created"
    /\ \E maxt \in 1..MaxTicks, mint \in 1..MaxTicks :
        /\ ticks' = ThinnedTicks(has_boundaries, boundaries, ticks, maxt, mint)
        /\ max_ticks' = maxt
        /\ min_ticks' = mint
    /\ pc' = "thinned"
    /\ UNCHANGED <<has_boundaries, boundaries, scoreVars, levelVars>>
    /\ UNCHANGED <<styleVars, barVars, oceanVars>>

NextTicks == ThinColorbarTicks

SpecTicks == InitTicks /\ [][NextTicks]_vars

----------------------------------------------------------------------------
(* _roundness_score applied to a pair of values, as the tests compare two   *)
(* scores                                                                  *)

\* d * 10^e units, either sign, within 32-bit integers
ScoreValues ==
    {0} \cup
    {sgn * d * (10 ^ e) :
        sgn \in {-1, 1},
        d \in 1..MaxMantissa,
        e \in {x \in 0..MaxExp : MaxMantissa <= (2 * (10 ^ 9)) \div (10 ^ x)}}
    \cup {sgn * d * (10 ^ 8) : sgn \in {-1, 1}, d \in 1..20}

InitScore ==
    /\ value \in ScoreValues \X ScoreValues
    /\ score = <<>>
    /\ IdleTicks /\ IdleLevels /\ IdleStyle /\ IdleBar /\ IdleOcean

RoundnessScores ==
    /\ score = <<>>
    /\ score' = <<RoundnessScore(value[1]), RoundnessScore(value[2])>>
    /\ UNCHANGED <<value, tickVars, levelVars, styleVars, barVars, oceanVars>>

NextScore == RoundnessScores

SpecScore == InitScore /\ [][NextScore]_vars

----------------------------------------------------------------------------
(* colormaps.py: discrete_cmap, auto_levels and log_cmap *)

RECURSIVE NumDigits(_)
NumDigits(n) == IF n < 10 THEN 1 ELSE 1 + NumDigits(n \div 10)

\* int(np.floor(np.log10(abs(x)))) for x # 0: x units are x * 10^-5
FloorLog10(x) == NumDigits(Abs(x)) - 6

\* _decimals = max(0, -int(np.floor(np.log10(abs(interval)))) + 1) if interval != 0 else 0
Decimals(itv) == IF itv # 0 THEN Max(0, -FloorLog10(itv) + 1) ELSE 0

\* np.round(m, d): to the nearest multiple of 10^-d, halves to the even one;
\* five decimals or more leave a value of the model as it is
RoundTo(m, d) ==
    IF d >= 5 THEN m
    ELSE LET g == 10 ^ (5 - d) IN g * RoundHalfEven(m, g)

\* 10^-d in units, one unit at least
Granule(d) == IF d >= 5 THEN 1 ELSE 10 ^ (5 - d)

RoundAll(s, d) == [i \in 1..Len(s) |-> RoundTo(s[i], d)]

\* np.arange(start, stop, step) where stop - start = num / den steps' worth:
\* max(0, ceil((stop - start) / step)) values start, start + step, ...
Arange(start, step, num, den) ==
    [i \in 1..Max(0, CeilDiv(num, den)) |-> start + (i - 1) * step]

\* np.unique: sorted, without duplicates
Unique(s) == SortedSeq(Range(s))

\* variant: np.arange(vmin, vmax, interval), which leaves vmax out
StandardLevelsOpenEnd(lo, hi, itv) ==
    RoundAll(Arange(lo, itv, hi - lo, itv), Decimals(itv))

\* np.arange(vmin, vmax + interval / 2, interval), rounded
StandardLevels(lo, hi, itv) ==
    RoundAll(Arange(lo, itv, 2 * (hi - lo) + itv, 2 * itv), Decimals(itv))

\* variant: no second np.unique after the rounding
CenteredLevelsRoundedOnly(lo, hi, itv) ==
    LET neg_levels == Arange(lo, itv, -itv - 10 * lo, 10 * itv)
        white_band == <<-(itv \div 2), itv \div 2>>
        pos_levels == Arange(itv, itv, 2 * (hi - itv) + itv, 2 * itv)
        all == Unique(neg_levels \o white_band \o pos_levels)
    IN  RoundAll(all, Decimals(itv))

\* the levels with a white band centred on zero (interval even, so that
\* interval / 2 is a value of the model)
CenteredLevels(lo, hi, itv) ==
    LET neg_levels == Arange(lo, itv, -itv - 10 * lo, 10 * itv)
        white_band == <<-(itv \div 2), itv \div 2>>
        pos_levels == Arange(itv, itv, 2 * (hi - itv) + itv, 2 * itv)
        all == Unique(neg_levels \o white_band \o pos_levels)
    IN  Unique(RoundAll(all, Decimals(itv)))

DiscreteLevels(lo, hi, itv, cow) ==
    IF cow THEN CenteredLevels(lo, hi, itv) ELSE StandardLevels(lo, hi, itv)

\* 10 ** np.floor(np.log10(raw_interval)) for raw_interval = span / n >= 1 unit
RECURSIVE MagnitudeFrom(_, _, _)
MagnitudeFrom(m, span, n) ==
    IF 10 * m * n <= span THEN MagnitudeFrom(10 * m, span, n) ELSE m

\* variant: 4 in the place of 5
CandidatesOneTwoFour(magnitude) ==
    <<magnitude, 2 * magnitude, 4 * magnitude, 10 * magnitude>>

Candidates(magnitude) ==
    <<magnitude, 2 * magnitude, 5 * magnitude, 10 * magnitude>>

\* variant: the first candidate, whatever its distance
ClosestIndexFirst(candidates, span, n) == 1

\* variant: the last candidate at the least distance
ClosestIndexLast(candidates, span, n) ==
    CHOOSE i \in 1..Len(candidates) :
        /\ \A j \in 1..Len(candidates) :
              Abs(candidates[i] * n - span) <= Abs(candidates[j] * n - span)
        /\ \A j \in (i + 1)..Len(candidates) :
              Abs(candidates[j] * n - span) > Abs(candidates[i] * n - span)

\* np.argmin(np.abs(candidates - raw_interval)), counted from 1: the first
\* candidate at the least distance (distances compared times n)
ClosestIndex(candidates, span, n) ==
    CHOOSE i \in 1..Len(candidates) :
        /\ \A j \in 1..Len(candidates) :
              Abs(candidates[i] * n - span) <= Abs(candidates[j] * n - span)
        /\ \A j \in 1..(i - 1) :
              Abs(candidates[j] * n - span) > Abs(candidates[i] * n - span)

NiceInterval(lo, hi, n) ==
    LET span == hi - lo
        candidates == Candidates(MagnitudeFrom(1, span, n))
    IN  candidates[ClosestIndex(candidates, span, n)]

\* np.floor(vmin / interval) * interval
SnappedVmin(lo, itv) == (lo \div itv) * itv

\* variant: vmax snapped down like vmin
SnappedVmaxDown(hi, itv) == (hi \div itv) * itv

\* np.ceil(vmax / interval) * interval
SnappedVmax(hi, itv) == CeilDiv(hi, itv) * itv

AutoLevelsOf(lo, hi, itv) ==
    StandardLevels(SnappedVmin(lo, itv), SnappedVmax(hi, itv), itv)

----------------------------------------------------------------------------
(* BoundaryNorm and the colours of the white-centred colormap *)

\* cmap.N of a registered matplotlib colormap
CmapN == 256

Extends == {"neither", "min", "max", "both"}

\* the colour bins of BoundaryNorm(levels, ncolors, extend=extend): one per
\* interval and one per extended end
NormOffset(ext) == IF ext \in {"min", "both"} THEN 1 ELSE 0
NRegions(lv, ext) ==
    Len(lv) - 1 + NormOffset(ext) + (IF ext \in {"max", "both"} THEN 1 ELSE 0)

\* the constructor raises ValueError for fewer than two boundaries and for
\* more bins than colours
BoundaryNormAccepts(lv, nc, ext) == Len(lv) >= 2 /\ NRegions(lv, ext) <= nc

\* norm(x) for x = twice_x / 2: the index of the colour of x, counted from 0;
\* -1 below the first boundary and ncolors from the last boundary on
BoundaryNormIndex(lv, nc, ext, twice_x) ==
    LET digitize == Cardinality({i \in 1..Len(lv) : 2 * lv[i] <= twice_x})
        iret == digitize - 1 + NormOffset(ext)
        n_regions == NRegions(lv, ext)
    IN  IF twice_x < 2 * lv[1] THEN -1
        ELSE IF twice_x >= 2 * Last(lv) THEN nc
        ELSE IF nc > n_regions
             THEN IF n_regions = 1
                  THEN (IF iret = 0 THEN (nc - 1) \div 2 ELSE iret)
                  ELSE ((nc - 1) * iret) \div (n_regions - 1)
             ELSE iret

\* a colour of the base colormap, base_cmap(num / den), and pure white
BaseColor(num, den) == [kind |-> "base", num |-> num, den |-> den]
White == [kind |-> "white", num |-> 1, den |-> 1]

\* the interval colours: base_cmap(linear_norm(midpoint)) for each interval
MidpointColors(lv) ==
    [i \in 1..(Len(lv) - 1) |->
        BaseColor(lv[i] + lv[i + 1] - 2 * lv[1], 2 * (Last(lv) - lv[1]))]

\* the first interval spanning zero set to white, if there is one
WhitenZeroInterval(lv, cols) ==
    LET spanning == {i \in 1..(Len(lv) - 1) : lv[i] < 0 /\ 0 < lv[i + 1]}
    IN  IF spanning = {} THEN cols
        ELSE LET i == CHOOSE j \in spanning : \A k \in spanning : j <= k
             IN  [cols EXCEPT ![i] = White]

\* variant: both arrow colours, whatever extend is
WithExtendColorsBoth(cols, ext) == <<BaseColor(0, 1)>> \o cols \o <<BaseColor(1, 1)>>

\* the extra colours for the extend arrows
WithExtendColors(cols, ext) ==
    (IF ext \in {"min", "both"} THEN <<BaseColor(0, 1)>> ELSE <<>>)
        \o cols
        \o (IF ext \in {"max", "both"} THEN <<BaseColor(1, 1)>> ELSE <<>>)

\* variant: the arrow colours put in before the zero interval is whitened
CenteredColorsWhitenedLast(lv, ext) ==
    LET cols == WithExtendColors(MidpointColors(lv), ext)
    IN  WhitenZeroInterval(lv, cols)

\* the colours of the ListedColormap built for center_on_white
CenteredColors(lv, ext) ==
    WithExtendColors(WhitenZeroInterval(lv, MidpointColors(lv)), ext)

\* the colours and the ncolors argument of BoundaryNorm in discrete_cmap
DiscreteColors(lv, ext, cow) == IF cow THEN CenteredColors(lv, ext) ELSE <<>>
DiscreteNColors(lv, ext, cow) ==
    IF cow THEN Len(CenteredColors(lv, ext)) ELSE CmapN

----------------------------------------------------------------------------
(* log_cmap *)

\* vmin and vmax of log_cmap reach from 10^-MaxDecade to 10^MaxDecade
MaxDecade == 2

\* int(np.ceil(np.log10(x))) for x > 0
CeilLog10(x) ==
    IF x = 10 ^ (NumDigits(x) - 1) THEN FloorLog10(x) ELSE FloorLog10(x) + 1

\* the sub-steps of a decade, for per_decade 1, 2 and 3
LogSubs(pd) ==
    IF pd = 1 THEN <<1>> ELSE IF pd = 2 THEN <<1, 3>> ELSE <<1, 2, 5>>

\* s * 10**exp in units
SubTimesDecade(sub, exp) == sub * (10 ^ (exp + 5))

LogLevels(lo, hi, pd) ==
    LET subs == LogSubs(pd)
        vals == {SubTimesDecade(subs[i], exp) :
                    i \in 1..Len(subs), exp \in FloorLog10(lo)..CeilLog10(hi)}
        kept == SortedSeq({val \in vals : lo <= val /\ val <= hi})
    IN  IF Len(kept) = 0 THEN <<lo, hi>> ELSE kept

----------------------------------------------------------------------------
(* One call of discrete_cmap, auto_levels or log_cmap *)

LevelStep == Scale \div 10

\* multiples of 0.1, and values off that grid
LevelValues ==
    {k * LevelStep : k \in (-MaxLevel)..MaxLevel}
        \cup {-25400, -23000, -15000, 15000, 27000}

\* 0.05, 0.1, 0.125, 0.2, 0.25, 0.3, 0.5
Intervals == {5000, 10000, 12500, 20000, 25000, 30000, 50000}

\* 1, 2, 3 and 5 times the powers of ten up to 10^MaxDecade, values between
\* them (0.015, 7), zero and a negative value
LogValues ==
    {sub * (10 ^ (exp + 5)) :
        sub \in {1, 2, 3, 5}, exp \in (-MaxDecade)..(MaxDecade - 1)}
        \cup {10 ^ (MaxDecade + 5), 1500, 7 * Scale, 0, -Scale}

InitDiscrete ==
    /\ fn = "discrete_cmap" /\ ret = "pending"
    /\ vmin \in LevelValues /\ vmax \in LevelValues /\ vmin < vmax
    /\ interval \in Intervals
    /\ center_on_white \in BOOLEAN
    /\ extend \in Extends
    /\ n_levels = 0 /\ levels = <<>>
    /\ per_decade = 0 /\ colors = <<>> /\ ncolors = 0

InitAuto ==
    /\ fn = "auto_levels" /\ ret = "pending"
    /\ vmin \in LevelValues /\ vmax \in LevelValues
    /\ n_levels \in 0..MaxNLevels
    /\ interval = 0 /\ center_on_white = FALSE /\ levels = <<>>
    /\ per_decade = 0 /\ extend = "both" /\ colors = <<>> /\ ncolors = 0

InitLog ==
    /\ fn = "log_cmap" /\ ret = "pending"
    /\ vmin \in LogValues /\ vmax \in LogValues
    /\ per_decade \in 1..3
    /\ extend \in Extends
    /\ interval = 0 /\ n_levels = 0 /\ center_on_white = FALSE
    /\ levels = <<>> /\ colors = <<>> /\ ncolors = 0

InitLevels ==
    /\ InitDiscrete \/ InitAuto \/ InitLog
    /\ IdleTicks /\ IdleScore /\ IdleStyle /\ IdleBar /\ IdleOcean

\* discrete_cmap returning (cmap, norm, levels)
DiscreteCmap ==
    /\ fn = "discrete_cmap" /\ ret = "pending"
    /\ LET lv == DiscreteLevels(vmin, vmax, interval, center_on_white)
           nc == DiscreteNColors(lv, extend, center_on_white)
       IN  /\ BoundaryNormAccepts(lv, nc, extend)
           /\ levels' = lv
           /\ colors' = DiscreteColors(lv, extend, center_on_white)
           /\ ncolors' = nc
    /\ ret' = "returned"
    /\ UNCHANGED <<fn, vmin, vmax, interval, n_levels, center_on_white>>
    /\ UNCHANGED <<per_decade, extend>>
    /\ UNCHANGED <<tickVars, scoreVars, styleVars, barVars, oceanVars>>

\* discrete_cmap leaving with the ValueError of the BoundaryNorm constructor
DiscreteCmapNormRaise ==
    /\ fn = "discrete_cmap" /\ ret = "pending"
    /\ LET lv == DiscreteLevels(vmin, vmax, interval, center_on_white)
           nc == DiscreteNColors(lv, extend, center_on_white)
       IN  ~BoundaryNormAccepts(lv, nc, extend)
    /\ ret' = "ValueError"
    /\ UNCHANGED <<fn, vmin, vmax, interval, n_levels, center_on_white, levels>>
    /\ UNCHANGED <<per_decade, extend, colors, ncolors>>
    /\ UNCHANGED <<tickVars, scoreVars, styleVars, barVars, oceanVars>>

AutoLevelsRaise ==
    /\ fn = "auto_levels" /\ ret = "pending"
    /\ vmin >= vmax \/ n_levels < 1
    /\ ret' = "ValueError"
    /\ UNCHANGED <<fn, vmin, vmax, interval, n_levels, center_on_white, levels>>
    /\ UNCHANGED <<per_decade, extend, colors, ncolors>>
    /\ UNCHANGED <<tickVars, scoreVars, styleVars, barVars, oceanVars>>

AutoLevels ==
    /\ fn = "auto_levels" /\ ret = "pending"
    /\ ~(vmin >= vmax) /\ ~(n_levels < 1)
    /\ interval' = NiceInterval(vmin, vmax, n_levels)
    /\ levels' = AutoLevelsOf(vmin, vmax, interval')
    /\ ret' = "returned"
    /\ UNCHANGED <<fn, vmin, vmax, n_levels, center_on_white>>
    /\ UNCHANGED <<per_decade, extend, colors, ncolors>>
    /\ UNCHANGED <<tickVars, scoreVars, styleVars, barVars, oceanVars>>

\* log_cmap leaving with one of its own two ValueErrors
LogCmapRaise ==
    /\ fn = "log_cmap" /\ ret = "pending"
    /\ vmin <= 0 \/ vmax <= vmin
    /\ ret' = "ValueError"
    /\ UNCHANGED <<fn, vmin, vmax, interval, n_levels, center_on_white, levels>>
    /\ UNCHANGED <<per_decade, extend, colors, ncolors>>
    /\ UNCHANGED <<tickVars, scoreVars, styleVars, barVars, oceanVars>>

\* log_cmap leaving with the ValueError of the BoundaryNorm constructor
LogCmapNormRaise ==
    /\ fn = "log_cmap" /\ ret = "pending"
    /\ ~(vmin <= 0) /\ ~(vmax <= vmin)
    /\ ~BoundaryNormAccepts(LogLevels(vmin, vmax, per_decade), CmapN, extend)
    /\ ret' = "ValueError"
    /\ UNCHANGED <<fn, vmin, vmax, interval, n_levels, center_on_white, levels>>
    /\ UNCHANGED <<per_decade, extend, colors, ncolors>>
    /\ UNCHANGED <<tickVars, scoreVars, styleVars, barVars, oceanVars>>

\* log_cmap returning (cmap, norm, levels)
LogCmap ==
    /\ fn = "log_cmap" /\ ret = "pending"
    /\ ~(vmin <= 0) /\ ~(vmax <= vmin)
    /\ BoundaryNormAccepts(LogLevels(vmin, vmax, per_decade), CmapN, extend)
    /\ levels' = LogLevels(vmin, vmax, per_decade)
    /\ ncolors' = CmapN
    /\ ret' = "returned"
    /\ UNCHANGED <<fn, vmin, vmax, interval, n_levels, center_on_white>>
    /\ UNCHANGED <<per_decade, extend, colors>>
    /\ UNCHANGED <<tickVars, scoreVars, styleVars, barVars, oceanVars>>

NextLevels ==
    \/ DiscreteCmap \/ DiscreteCmapNormRaise
    \/ AutoLevelsRaise \/ AutoLevels
    \/ LogCmapRaise \/ LogCmapNormRaise \/ LogCmap

SpecLevels == InitLevels /\ [][NextLevels]_vars

----------------------------------------------------------------------------
(* style.py: publication, presentation, reset_style, get_current_mode *)

\* variant: font.family set whatever for_pdf is
PublicationSettingsAlwaysFont(width, for_pdf, font_family) ==
    LET settings ==
            [k \in SettingsKeys |->
                CASE k = "font.size" -> Num(10)
                  [] k = "axes.labelsize" -> Num(10)
                  [] k = "axes.titlesize" -> Num(11)
                  [] k = "xtick.labelsize" -> Num(8)
                  [] k = "ytick.labelsize" -> Num(8)
                  [] k = "legend.fontsize" -> Num(8)
                  [] k = "figure.figsize" -> Pair(width, (width * 3) \div 4)
                  [] k = "figure.dpi" -> Num(300)
                  [] k = "savefig.dpi" -> Num(300)
                  [] k = "savefig.bbox" -> Name("tight")
                  [] k = "savefig.facecolor" -> Name("white")
                  [] k = "axes.linewidth" -> Num((8 * Scale) \div 10)
                  [] k = "grid.linewidth" -> Num((3 * Scale) \div 10)
                  [] k = "lines.linewidth" -> Num((15 * Scale) \div 10)
                  [] k = "pdf.fonttype" -> Num(42)]
    IN  ("font.family" :>
            Name(IF font_family = "None" THEN "Myriad Pro" ELSE font_family))
            @@ settings

\* the settings table of publication(width, for_pdf, font_family)
PublicationSettings(width, for_pdf, font_family) ==
    LET settings ==
            [k \in SettingsKeys |->
                CASE k = "font.size" -> Num(10)
                  [] k = "axes.labelsize" -> Num(10)
                  [] k = "axes.titlesize" -> Num(11)
                  [] k = "xtick.labelsize" -> Num(8)
                  [] k = "ytick.labelsize" -> Num(8)
                  [] k = "legend.fontsize" -> Num(8)
                  [] k = "figure.figsize" -> Pair(width, (width * 3) \div 4)
                  [] k = "figure.dpi" -> Num(300)
                  [] k = "savefig.dpi" -> Num(300)
                  [] k = "savefig.bbox" -> Name("tight")
                  [] k = "savefig.facecolor" -> Name("white")
                  [] k = "axes.linewidth" -> Num((8 * Scale) \div 10)
                  [] k = "grid.linewidth" -> Num((3 * Scale) \div 10)
                  [] k = "lines.linewidth" -> Num((15 * Scale) \div 10)
                  [] k = "pdf.fonttype" -> Num(42)]
    IN  IF for_pdf
        THEN ("font.family" :>
                 Name(IF font_family = "None" THEN "Myriad Pro" ELSE font_family))
                 @@ settings
        ELSE settings

\* variant: a table without the two dpi keys
PresentationSettingsWithoutDpi(width, for_pdf, font_family) ==
    LET settings ==
            [k \in SettingsKeys \ {"figure.dpi", "savefig.dpi"} |->
                CASE k = "font.size" -> Num(14)
                  [] k = "axes.labelsize" -> Num(14)
                  [] k = "axes.titlesize" -> Num(16)
                  [] k = "xtick.labelsize" -> Num(14)
                  [] k = "ytick.labelsize" -> Num(14)
                  [] k = "legend.fontsize" -> Num(12)
                  [] k = "figure.figsize" -> Pair(width, (width * 3) \div 5)
                  [] k = "savefig.bbox" -> Name("tight")
                  [] k = "savefig.facecolor" -> Name("white")
                  [] k = "axes.linewidth" -> Num((12 * Scale) \div 10)
                  [] k = "grid.linewidth" -> Num((5 * Scale) \div 10)
                  [] k = "lines.linewidth" -> Num((25 * Scale) \div 10)
                  [] k = "pdf.fonttype" -> Num(42)]
    IN  IF for_pdf
        THEN ("font.family" :>
                 Name(IF font_family = "None" THEN "Myriad Pro" ELSE font_family))
                 @@ settings
        ELSE settings

\* the settings table of presentation(width, for_pdf, font_family)
PresentationSettings(width, for_pdf, font_family) ==
    LET settings ==
            [k \in SettingsKeys |->
                CASE k = "font.size" -> Num(14)
                  [] k = "axes.labelsize" -> Num(14)
                  [] k = "axes.titlesize" -> Num(16)
                  [] k = "xtick.labelsize" -> Num(14)
                  [] k = "ytick.labelsize" -> Num(14)
                  [] k = "legend.fontsize" -> Num(12)
                  [] k = "figure.figsize" -> Pair(width, (width * 3) \div 5)
                  [] k = "figure.dpi" -> Num(150)
                  [] k = "savefig.dpi" -> Num(150)
                  [] k = "savefig.bbox" -> Name("tight")
                  [] k = "savefig.facecolor" -> Name("white")
                  [] k = "axes.linewidth" -> Num((12 * Scale) \div 10)
                  [] k = "grid.linewidth" -> Num((5 * Scale) \div 10)
                  [] k = "lines.linewidth" -> Num((25 * Scale) \div 10)
                  [] k = "pdf.fonttype" -> Num(42)]
    IN  IF for_pdf
        THEN ("font.family" :>
                 Name(IF font_family = "None" THEN "Myriad Pro" ELSE font_family))
                 @@ settings
        ELSE settings

\* plt.rcParams.update(settings)
RcUpdate(rc, settings) ==
    [k \in DOMAIN rc \cup DOMAIN settings |->
        IF k \in DOMAIN settings THEN settings[k] ELSE rc[k]]

\* width arguments: 3.5, 5.0, 7.0 and 10.0 inches
Widths == {(35 * Scale) \div 10, 5 * Scale, 7 * Scale, 10 * Scale}

\* font_family arguments; "None" stands for None
FontFamilies == {"None", "Helvetica", "Arial"}

\* rcParams before the first style call: matplotlib's defaults or the values
\* of a matplotlibrc that changes some of them
StartRcParams ==
    {rcParamsDefault,
     [rcParamsDefault EXCEPT !["font.size"] = Num(12),
                             !["figure.dpi"] = Num(72),
                             !["font.family"] = Name("serif")]}

InitStyle ==
    /\ current_mode = "None"
    /\ rcParams \in StartRcParams
    /\ last_call = "none" /\ got_mode = "none" /\ last_for_pdf = FALSE
    /\ IdleTicks /\ IdleScore /\ IdleLevels /\ IdleBar /\ IdleOcean

Publication ==
    /\ \E width \in Widths, for_pdf \in BOOLEAN, font_family \in FontFamilies :
          /\ rcParams' =
                RcUpdate(rcParams, PublicationSettings(width, for_pdf, font_family))
          /\ last_for_pdf' = for_pdf
    /\ current_mode' = "publication"
    /\ last_call' = "publication"
    /\ UNCHANGED <<got_mode, tickVars, scoreVars, levelVars, barVars, oceanVars>>

Presentation ==
    /\ \E width \in Widths, for_pdf \in BOOLEAN, font_family \in FontFamilies :
          /\ rcParams' =
                RcUpdate(rcParams, PresentationSettings(width, for_pdf, font_family))
          /\ last_for_pdf' = for_pdf
    /\ current_mode' = "presentation"
    /\ last_call' = "presentation"
    /\ UNCHANGED <<got_mode, tickVars, scoreVars, levelVars, barVars, oceanVars>>

\* variant: the mode tracker left as it is
ResetStyleKeepingMode ==
    /\ rcParams' = rcParamsDefault
    /\ last_call' = "reset_style"
    /\ UNCHANGED <<current_mode, got_mode, last_for_pdf>>
    /\ UNCHANGED <<tickVars, scoreVars, levelVars, barVars, oceanVars>>

\* variant: only the keys of the settings tables restored
ResetStyleSettingsOnly ==
    /\ rcParams' =
          [k \in DOMAIN rcParams |->
              IF k \in SettingsKeys THEN rcParamsDefault[k] ELSE rcParams[k]]
    /\ current_mode' = "None"
    /\ last_call' = "reset_style"
    /\ UNCHANGED <<got_mode, last_for_pdf>>
    /\ UNCHANGED <<tickVars, scoreVars, levelVars, barVars, oceanVars>>

ResetStyle ==
    /\ rcParams' = rcParamsDefault
    /\ current_mode' = "None"
    /\ last_call' = "reset_style"
    /\ UNCHANGED <<got_mode, last_for_pdf>>
    /\ UNCHANGED <<tickVars, scoreVars, levelVars, barVars, oceanVars>>

GetCurrentMode ==
    /\ got_mode' = current_mode
    /\ UNCHANGED <<current_mode, rcParams, last_call, last_for_pdf>>
    /\ UNCHANGED <<tickVars, scoreVars, levelVars, barVars, oceanVars>>

NextStyle == Publication \/ Presentation \/ ResetStyle \/ GetCurrentMode

SpecStyle == InitStyle /\ [][NextStyle]_vars

----------------------------------------------------------------------------
(* panels.py: bottom_colorbar.  Widths and positions are fractions of the   *)
(* figure width, in units.                                                 *)

\* min_width and max_width reach up to MaxBarSteps tenths of the figure width
MaxBarSteps == 12

BarStep == Scale \div 10

\* variant: no floor at min_width
BarWidthWithoutFloor(minw, maxw, span) == Min(maxw, span)

\* variant: no cap at max_width
BarWidthWithoutCap(minw, maxw, span) == Max(minw, span)

\* variant: min_width whatever the axes span
BarWidthAtMinWidth(minw, maxw, span) == Min(maxw, minw)

\* cbar_width = min(max_width, max(min_width, axes_span))
BarWidth(minw, maxw, span) == Min(maxw, Max(minw, span))

\* cbar_x0: centred, then kept at or right of 0, then at or left of 1 - width
BarX0(width) ==
    LET centred == (Scale \div 2) - (width \div 2)
        clamped == Max(0, centred)
    IN  Min(clamped, Scale - width)

\* min_width / max_width arguments: 0.2, 0.3, ... and the defaults 0.6, 0.8
WidthFractions == {k * BarStep : k \in 2..MaxBarSteps}

\* the span of the data axes after the layout: 0.1 ... 1.0 and 0.776
AxesSpans == {k * BarStep : k \in 1..10} \cup {77600}

\* the norm of the mappable: the boundaries of a BoundaryNorm
MappableBoundaries ==
    {<<-Scale, 0, Scale>>,
     <<-2 * Scale, -Scale, 0, Scale, 2 * Scale>>,
     <<0, Scale, 2 * Scale, 3 * Scale, 4 * Scale, 5 * Scale>>}

\* the ticks the locator of another norm generates
LocatorTicks == <<-Scale, -(Scale \div 2), 0, Scale \div 2, Scale>>

\* (max_ticks, min_ticks) arguments: the defaults and a tighter pair
TickLimits == {<<9, 5>>, <<3, 2>>}

\* the figure with its panels laid out and the mappable drawn; no colorbar
InitBar ==
    /\ pc = "none"
    /\ has_boundaries \in BOOLEAN
    /\ boundaries \in MappableBoundaries \cup {<<>>}
    /\ has_boundaries <=> boundaries # <<>>
    /\ ticks = <<>> /\ max_ticks = 0 /\ min_ticks = 0
    /\ axes_span \in AxesSpans
    /\ min_width = 0 /\ max_width = 0 /\ cbar_width = 0 /\ cbar_x0 = 0
    /\ IdleScore /\ IdleLevels /\ IdleStyle /\ IdleOcean

\* bottom_colorbar(mappable, fig, axes, label, min_width=..., max_width=...,
\* max_ticks=..., min_ticks=...): the final colorbar placed, its ticks thinned
\* unless max_ticks is None (limited = FALSE).  The colorbar of a
\* BoundaryNorm starts with a tick on every boundary, another one with the
\* ticks of its locator.
BottomColorbar ==
    /\ pc = "none"
    /\ \E minw \in WidthFractions, maxw \in WidthFractions,
          limited \in BOOLEAN, limits \in TickLimits :
          LET created == IF has_boundaries THEN boundaries ELSE LocatorTicks IN
          /\ min_width' = minw
          /\ max_width' = maxw
          /\ cbar_width' = BarWidth(minw, maxw, axes_span)
          /\ cbar_x0' = BarX0(cbar_width')
          /\ max_ticks' = IF limited THEN limits[1] ELSE 0
          /\ min_ticks' = limits[2]
          /\ ticks' = IF limited
                      THEN ThinnedTicks(has_boundaries, boundaries, created,
                                        limits[1], limits[2])
                      ELSE created
    /\ pc' = "placed"
    /\ UNCHANGED <<has_boundaries, boundaries, axes_span>>
    /\ UNCHANGED <<scoreVars, levelVars, styleVars, oceanVars>>

NextBar == BottomColorbar

SpecBar == InitBar /\ [][NextBar]_vars

----------------------------------------------------------------------------
(* maps.py: set_land_background, mask_land, plot_ocean_field *)

\* np.nan, a value no data point has
NaN == -(10 ^ 9)

\* variant: every non-zero mask value taken for ocean
MaskLandNonZero(d, m) == [i \in 1..Len(d) |-> IF m[i] # 0 THEN d[i] ELSE NaN]

\* np.where(wet_mask == 1, data, np.nan)
MaskLand(d, m) == [i \in 1..Len(d) |-> IF m[i] = 1 THEN d[i] ELSE NaN]

\* variant: scatter accepted as well
ValidMethodsWithScatter == {"pcolormesh", "contourf", "contour", "scatter"}

ValidMethods == {"pcolormesh", "contourf", "contour"}

\* method arguments
Methods == {"pcolormesh", "contourf", "contour", "scatter", "imshow"}

\* land_color arguments: the default and the one of the tests
LandColors == {"#808080", "tan"}

\* fields of two points, and wet masks for them (1 = ocean, 0 = land, and 2,
\* a value that is neither)
OceanData == {<<a, b>> : a \in {0, Scale}, b \in {0, Scale}}
WetMasks == {<<a, b>> : a \in {0, 1, 2}, b \in {0, 1, 2}}

\* plot_ocean_field(ax, lon, lat, data, wet_mask, land_color, method) called
\* on axes with the white background of a new figure
InitOcean ==
    /\ ocean_pc = "called"
    /\ method \in Methods
    /\ wet_mask \in WetMasks \cup {<<>>}
    /\ land_color \in LandColors
    /\ facecolor = "white"
    /\ caller_data \in OceanData
    /\ data = caller_data
    /\ plotted = NoPlot
    /\ steps = <<>>
    /\ IdleTicks /\ IdleScore /\ IdleLevels /\ IdleStyle /\ IdleBar

\* method not in valid_methods: raise ValueError
OceanRaise ==
    /\ ocean_pc = "called"
    /\ method \notin ValidMethods
    /\ ocean_pc' = "ValueError"
    /\ UNCHANGED <<method, wet_mask, land_color, facecolor, caller_data, data,
                   plotted, steps>>
    /\ UNCHANGED <<tickVars, scoreVars, levelVars, styleVars, barVars>>

\* set_land_background(ax, land_color)
OceanSetBackground ==
    /\ ocean_pc = "called"
    /\ method \in ValidMethods
    /\ facecolor' = land_color
    /\ steps' = Append(steps, "background")
    /\ ocean_pc' = "background_set"
    /\ UNCHANGED <<method, wet_mask, land_color, caller_data, data, plotted>>
    /\ UNCHANGED <<tickVars, scoreVars, levelVars, styleVars, barVars>>

\* if wet_mask is not None: data = mask_land(data, wet_mask)
OceanMaskLand ==
    /\ ocean_pc = "background_set"
    /\ wet_mask # <<>>
    /\ data' = MaskLand(data, wet_mask)
    /\ steps' = Append(steps, "mask")
    /\ ocean_pc' = "land_masked"
    /\ UNCHANGED <<method, wet_mask, land_color, facecolor, caller_data, plotted>>
    /\ UNCHANGED <<tickVars, scoreVars, levelVars, styleVars, barVars>>

\* return getattr(ax, method)(lon, lat, data, **kwargs)
OceanPlot ==
    /\ \/ ocean_pc = "land_masked"
       \/ ocean_pc = "background_set" /\ wet_mask = <<>>
    /\ plotted' = [func |-> method, data |-> data]
    /\ steps' = Append(steps, "plot")
    /\ ocean_pc' = "returned"
    /\ UNCHANGED <<method, wet_mask, land_color, facecolor, caller_data, data>>
    /\ UNCHANGED <<tickVars, scoreVars, levelVars, styleVars, barVars>>

NextOcean == OceanRaise \/ OceanSetBackground \/ OceanMaskLand \/ OceanPlot

SpecOcean == InitOcean /\ [][NextOcean]_vars

----------------------------------------------------------------------------
(* Properties of the tick selection *)

Thinned == pc = "thinned" /\ has_boundaries

\* boundaries == -reverse(boundaries), length > 2
ExactlySymmetric(b) == Len(b) > 2 /\ b = Negate(Reverse(b))

\* some stride/offset subset of b has between lo and hi values
StrideSubsetExists(b, lo, hi) ==
    \E stride \in 1..Len(b) : \E offset \in 0..(stride - 1) :
        /\ Len(Slice(b, offset, stride)) >= lo
        /\ Len(Slice(b, offset, stride)) <= hi

\* s is t with some of its values left out
IsSubSequence(s, t) == StrictlyIncreasing(s) /\ Range(s) \subseteq Range(t)

\* C1: on boundaries that are symmetric about zero, the ticks set by
\* _thin_colorbar_ticks are symmetric about zero: ticks == -reverse(ticks),
\* whether all boundaries are shown or _select_symmetric_ticks chose them.
C1_SymmetricTicks ==
    (Thinned /\ ExactlySymmetric(boundaries)) => ticks = Negate(Reverse(ticks))

\* the mirrored selection has run and left boundaries out on both sides
C1_Witness ==
    /\ Thinned /\ ExactlySymmetric(boundaries)
    /\ Len(boundaries) > max_ticks
    /\ Len(ticks) >= 4 /\ Len(ticks) < Len(boundaries)

\* C2: after _thin_colorbar_ticks(cbar, max_ticks, min_ticks) a BoundaryNorm
\* colorbar has at most max_ticks ticks.
C2_AtMostMaxTicks == Thinned => Len(ticks) <= max_ticks

\* C3: with more than max_ticks boundaries and a stride/offset subset of a size
\* within [min_ticks, max_ticks], the chosen ticks number at least min_ticks,
\* on symmetric boundaries as on asymmetric ones.
C3_AtLeastMinTicks ==
    (/\ Thinned
     /\ Len(boundaries) > max_ticks
     /\ StrideSubsetExists(boundaries, min_ticks, max_ticks))
        => Len(ticks) >= min_ticks

\* C4: the ticks on a BoundaryNorm colorbar are a strictly increasing
\* sub-sequence of the boundaries.
C4_TicksAreBoundaries == Thinned => IsSubSequence(ticks, boundaries)

\* _best_stride_subset has chosen the ticks
StrideChosen ==
    Thinned /\ Len(boundaries) > max_ticks /\ ~IsSymmetric(boundaries)

\* the (stride, offset) pairs of the search: stride in
\* [min_stride, 2 * min_stride], offset in [0, stride)
SearchPairs ==
    LET n == Len(boundaries)
        min_stride == Max(1, CeilDiv(n, max_ticks))
    IN  {p \in (min_stride..(2 * min_stride)) \X (0..(2 * min_stride - 1)) :
            p[2] < p[1]}

SubsetOf(p) == Slice(boundaries, p[2], p[1])

\* the pairs whose subset has between lo and max_ticks values
PairsWithin(lo) ==
    {p \in SearchPairs : Len(SubsetOf(p)) >= lo /\ Len(SubsetOf(p)) <= max_ticks}

\* p comes before q in the order of the two loops, or is q
Earlier(p, q) == p[1] < q[1] \/ (p[1] = q[1] /\ p[2] <= q[2])

\* the ticks are the subset of the first pair of the highest score in S
FirstBestOf(S) ==
    \E p \in S :
        /\ ticks = SubsetOf(p)
        /\ \A q \in S :
              /\ ScoreSubset(SubsetOf(q)) <= ScoreSubset(SubsetOf(p))
              /\ ScoreSubset(SubsetOf(q)) = ScoreSubset(SubsetOf(p))
                    => Earlier(p, q)

\* C23: when some subset boundaries[offset::stride], stride in
\* [min_stride, 2 * min_stride] and offset in [0, stride), has a size within
\* [min_ticks, max_ticks], _best_stride_subset returns among these subsets one
\* of the highest score (roundness of its values, plus 20 for equal gaps), and
\* of those with that score the first in the order of the loops.
C23_FirstBestSubset ==
    (StrideChosen /\ PairsWithin(min_ticks) # {}) => FirstBestOf(PairsWithin(min_ticks))

\* two different subsets share the highest score and the earlier one is shown
C23_Witness ==
    /\ StrideChosen
    /\ \E p \in PairsWithin(min_ticks), q \in PairsWithin(min_ticks) :
          /\ SubsetOf(p) # SubsetOf(q)
          /\ ticks = SubsetOf(p)
          /\ ScoreSubset(SubsetOf(q)) = ScoreSubset(SubsetOf(p))
          /\ \A r \in PairsWithin(min_ticks) :
                ScoreSubset(SubsetOf(r)) <= ScoreSubset(SubsetOf(p))

\* C24: when no subset of the search has a size within [min_ticks, max_ticks]
\* and max_ticks >= 2, _best_stride_subset returns the first best subset of the
\* same search with the minimum relaxed to 2, which has between 2 and max_ticks
\* values; whatever min_ticks is, with more than max_ticks >= 2 boundaries it
\* returns a subset (None would leave the ticks on every boundary).
C24_RelaxedMinimum ==
    (StrideChosen /\ max_ticks >= 2) =>
        /\ Len(ticks) >= Min(2, min_ticks) /\ Len(ticks) <= max_ticks
        /\ PairsWithin(min_ticks) = {} =>
              /\ FirstBestOf(PairsWithin(2))
              /\ Len(ticks) >= 2

\* the relaxed search has run and chosen fewer ticks than min_ticks
C24_Witness ==
    /\ StrideChosen /\ max_ticks >= 2 /\ min_ticks <= max_ticks
    /\ PairsWithin(min_ticks) = {}
    /\ Len(ticks) >= 2 /\ Len(ticks) < min_ticks
    /\ ticks # boundaries

\* C22: with no more boundaries than max_ticks, _thin_colorbar_ticks sets the
\* ticks to the whole boundary array, in order, whatever min_ticks is and
\* whether or not the boundaries are symmetric.
C22_FewBoundariesAllShown ==
    (Thinned /\ Len(boundaries) <= max_ticks) => ticks = boundaries

\* symmetric boundaries, fewer than min_ticks of them
C22_Witness ==
    /\ Thinned /\ ExactlySymmetric(boundaries)
    /\ Len(boundaries) <= max_ticks /\ Len(boundaries) < min_ticks
    /\ ticks = boundaries

----------------------------------------------------------------------------
(* Properties of _roundness_score *)

Scored == score # <<>>
IsInteger(v) == v % Scale = 0

\* C5 as stated: score(0) = 30 is above the score of every non-zero integer,
\* which is above the score of every non-integer.
C5_ZeroHighest ==
    Scored =>
        /\ value[1] = 0 => score[1] = 30
        /\ (value[1] = 0 /\ value[2] # 0 /\ IsInteger(value[2]))
              => score[1] > score[2]
        /\ (value[1] # 0 /\ IsInteger(value[1]) /\ ~IsInteger(value[2]))
              => score[1] > score[2]

\* C5 as amended: score(0) = 30 is above the score of every non-zero integer
\* that is no multiple of 1000; every non-zero integer scores 20 or more, above
\* every non-integer, which scores 15 or less.
C5_ZeroAboveSmallIntegers ==
    Scored =>
        /\ value[1] = 0 => score[1] = 30
        /\ (value[1] = 0 /\ value[2] # 0 /\ IsInteger(value[2])
                /\ value[2] % (1000 * Scale) # 0)
              => score[1] > score[2]
        /\ (value[1] # 0 /\ IsInteger(value[1]) /\ ~IsInteger(value[2]))
              => (score[1] >= 20 /\ score[2] <= 15 /\ score[1] > score[2])

\* zero against 500, the best integer below 1000
C5_Witness ==
    /\ Scored /\ value = <<0, 500 * Scale>> /\ score = <<30, 28>>

\* the stated score of a non-zero value v: 20 + 3 per trailing zero + digit
\* bonus for an integer, max(1, 10 - 2 * d) + digit bonus for a value with d
\* digits after the point
StatedScore(v) ==
    LET a == Abs(v)
        last == LastNonZeroDigit(a)
        bonus == IF last = 5 THEN 2 ELSE IF last \in {2, 4, 6, 8} THEN 1 ELSE 0
        d == 5 - TrailingZeros(a % Scale)
    IN  IF a % Scale = 0
        THEN 20 + 3 * TrailingZeros(a \div Scale) + bonus
        ELSE Max(1, 10 - 2 * d) + bonus

\* C25: _roundness_score of a non-zero integer is 20 + 3 * (trailing zeros) +
\* (2 if the last non-zero digit is 5, 1 if it is even, else 0); of a fractional
\* value with d decimal digits it is max(1, 10 - 2 * d) plus the same bonus,
\* never below 1.
C25_StatedFormula ==
    Scored =>
        \A i \in 1..2 :
            /\ value[i] # 0 => score[i] = StatedScore(value[i])
            /\ score[i] >= 1


DiscreteReturned == fn = "discrete_cmap" /\ ret = "returned"
AutoReturned == fn = "auto_levels" /\ ret = "returned"

\* C6: the levels of discrete_cmap are strictly increasing and hold no value
\* twice after rounding to the interval's decimal precision, with or without
\* center_on_white.
C6_LevelsStrictlyIncreasing ==
    DiscreteReturned =>
        /\ StrictlyIncreasing(levels)
        /\ Cardinality(Range(RoundAll(levels, Decimals(interval)))) = Len(levels)

\* center_on_white, and a level that rounding moved onto the white band's edge
C6_Witness ==
    /\ DiscreteReturned /\ center_on_white
    /\ vmin = -25400 /\ interval = 10000
    /\ Len(levels) >= 4

\* C7 as stated: without center_on_white the first level is vmin, the last is
\* vmax and level k is vmin + k * interval rounded to the interval's precision.
C7_LevelsSpanRange ==
    (DiscreteReturned /\ ~center_on_white) =>
        /\ Len(levels) >= 1
        /\ levels[1] = vmin
        /\ Last(levels) = vmax
        /\ \A k \in 1..Len(levels) :
              levels[k] = RoundTo(vmin + (k - 1) * interval, Decimals(interval))

\* C7 as amended: level k is vmin + k * interval rounded to the nearest
\* multiple of the interval's precision, the first of them vmin rounded, and
\* the last of them (before rounding) within interval / 2 of vmax; the levels
\* start at vmin and end at vmax when vmax - vmin is a whole number of
\* intervals and vmin and vmax have no more decimals than the precision.
C7_LevelsOnGrid ==
    (DiscreteReturned /\ ~center_on_white) =>
        LET g == Granule(Decimals(interval))
            n == Len(levels)
        IN  /\ n >= 1
            /\ \A k \in 1..n :
                  /\ levels[k] % g = 0
                  /\ 2 * Abs(levels[k] - (vmin + (k - 1) * interval)) <= g
            /\ 2 * Abs(vmin + (n - 1) * interval - vmax) <= interval
            /\ ((vmax - vmin) % interval = 0 /\ vmin % g = 0 /\ vmax % g = 0)
                  => (levels[1] = vmin /\ Last(levels) = vmax)

\* discrete_cmap(-0.3, 0.3, 0.1)
C7_Witness ==
    /\ DiscreteReturned /\ ~center_on_white
    /\ vmin = -30000 /\ vmax = 30000 /\ interval = 10000
    /\ levels = <<-30000, -20000, -10000, 0, 10000, 20000, 30000>>

\* C8: the interval auto_levels returns, divided by its power-of-ten
\* magnitude, is 1, 2, 5 or 10.
C8_NiceInterval ==
    AutoReturned =>
        LET m == 10 ^ (NumDigits(interval) - 1)
        IN  interval \in {m, 2 * m, 5 * m, 10 * m}

\* auto_levels(-0.23, 0.27, n_levels=10) -> 0.05
C8_Witness ==
    /\ AutoReturned /\ vmin = -23000 /\ vmax = 27000 /\ n_levels = 10
    /\ interval = 5000

C10_ApproximatelyNLevels ==
    AutoReturned =>
        /\ 2 * (Len(levels) - 1) >= n_levels
        /\ Len(levels) - 1 <= 2 * n_levels

\* C10 as amended: the number of intervals is at least n_levels / 2 and at most
\* 2 * n_levels + 1, and at most 2 * n_levels when n_levels >= 4.
C10_NearNLevels ==
    AutoReturned =>
        /\ 2 * (Len(levels) - 1) >= n_levels
        /\ Len(levels) - 1 <= 2 * n_levels + 1
        /\ n_levels >= 4 => Len(levels) - 1 <= 2 * n_levels

\* a small n_levels whose snapped range holds 2 * n_levels + 1 intervals
C10_Witness ==
    /\ AutoReturned /\ n_levels <= 3
    /\ Len(levels) - 1 = 2 * n_levels + 1

\* the powers of ten m with m <= raw_interval < 10 * m, raw_interval being
\* (vmax - vmin) / n_levels: only 10 ^ floor(log10(raw_interval))
DecadesOfRaw ==
    {m \in {10 ^ k : k \in 0..8} :
        /\ m * n_levels <= vmax - vmin
        /\ vmax - vmin < 10 * m * n_levels}

\* |c - raw_interval| times n_levels
RawDistance(c) == Abs(c * n_levels - (vmax - vmin))

----------------------------------------------------------------------------
(* Properties of the input errors and of log_cmap *)

LogCalled == fn = "log_cmap" /\ ret # "pending"
AutoCalled == fn = "auto_levels" /\ ret # "pending"

\* C11: auto_levels raises ValueError exactly when vmin >= vmax or n_levels < 1
\* and log_cmap exactly when vmin <= 0 or vmax <= vmin; a call that raises
\* returns no levels and every other call returns without a ValueError.
C11_RaisesIffInvalid ==
    /\ AutoCalled =>
          /\ (ret = "ValueError") <=> (vmin >= vmax \/ n_levels < 1)
          /\ ret = "ValueError" => levels = <<>>
    /\ LogCalled =>
          /\ (ret = "ValueError") <=> (vmin <= 0 \/ vmax <= vmin)
          /\ ret = "ValueError" => levels = <<>>

\* {s * 10^e : e from floor(log10(vmin)) to ceil(log10(vmax)), s in subs,
\* vmin <= s * 10^e <= vmax}, with subs {1}, {1, 3} or {1, 2, 5}
LogSet(lo, hi, pd) ==
    LET subs == IF pd = 1 THEN {1} ELSE IF pd = 2 THEN {1, 3} ELSE {1, 2, 5}
        all == {sub * (10 ^ (exp + 5)) :
                   sub \in subs, exp \in FloorLog10(lo)..CeilLog10(hi)}
    IN  {val \in all : lo <= val /\ val <= hi}

\* C12: for every 0 < vmin < vmax, log_cmap returns levels that are sorted
\* without duplicates, lie in [vmin, vmax] and are exactly the values
\* s * 10^e of the decades from floor(log10(vmin)) to ceil(log10(vmax)) that
\* lie in [vmin, vmax], s in {1}, {1, 3} or {1, 2, 5} for per_decade 1, 2, 3.
C12_LogLevelsAreTheSet ==
    (LogCalled /\ 0 < vmin /\ vmin < vmax) =>
        /\ ret = "returned"
        /\ StrictlyIncreasing(levels)
        /\ \A i \in 1..Len(levels) : vmin <= levels[i] /\ levels[i] <= vmax
        /\ Range(levels) = LogSet(vmin, vmax, per_decade)

\* C28: for every 0 < vmin < vmax and every per_decade, the levels log_cmap
\* returns start at vmin and end at vmax.
C28_EndpointsIncluded ==
    (fn = "log_cmap" /\ ret = "returned") =>
        (levels[1] = vmin /\ Last(levels) = vmax)

\* C29: for every 0 < vmin < vmax and per_decade >= 1, log_cmap builds at least
\* two boundaries, BoundaryNorm accepts them and the call returns.
C29_AtLeastTwoBoundaries ==
    (LogCalled /\ 0 < vmin /\ vmin < vmax /\ per_decade >= 1) =>
        (Len(levels) >= 2 /\ ret = "returned")

----------------------------------------------------------------------------
(* Properties of the white-centred colormap *)

CenteredReturned == DiscreteReturned /\ center_on_white
AcrossZero == vmin < 0 /\ 0 < vmax

\* the bins levels[i] < 0 < levels[i + 1]
ZeroBins == {i \in 1..(Len(levels) - 1) : levels[i] < 0 /\ 0 < levels[i + 1]}

\* cmap(norm(x)) for x = twice_x / 2 inside the levels: the ListedColormap
\* gives the colour at the index the norm computed
ColorAt(twice_x) ==
    colors[BoundaryNormIndex(levels, ncolors, extend, twice_x) + 1]

C14_ColorsMatchBins ==
    CenteredReturned =>
        /\ Len(colors) = Len(levels) - 1
              + (CASE extend = "neither" -> 0
                   [] extend = "min" -> 1
                   [] extend = "max" -> 1
                   [] extend = "both" -> 2)
        /\ ncolors = Len(colors)

\* one extended end: discrete_cmap(-0.3, 0.3, 0.1, extend="max",
\* center_on_white=True) has 7 intervals and 8 colours
C14_Witness ==
    /\ CenteredReturned /\ extend = "max"
    /\ vmin = -30000 /\ vmax = 30000 /\ interval = 10000
    /\ Len(levels) = 8 /\ Len(colors) = 8 /\ ncolors = 8

----------------------------------------------------------------------------
(* Properties of the style calls *)

\* C15: the mode follows the last style call: None before any call and after
\* reset_style(), 'publication' after publication(), 'presentation' after
\* presentation(); get_current_mode() leaves it alone and returns one of these
\* three values.
C15_ModeFollowsLastCall ==
    /\ current_mode \in {"None", "publication", "presentation"}
    /\ got_mode \in {"none", "None", "publication", "presentation"}
    /\ last_call = "none" => current_mode = "None"
    /\ last_call = "publication" => current_mode = "publication"
    /\ last_call = "presentation" => current_mode = "presentation"
    /\ last_call = "reset_style" => current_mode = "None"

\* presentation() after a publication() that get_current_mode() had reported
C15_Witness ==
    /\ last_call = "presentation" /\ current_mode = "presentation"
    /\ got_mode = "publication"

\* C16: right after publication() font.size = 10, axes.labelsize = 10,
\* axes.titlesize = 11, xtick.labelsize = 8, figure.dpi = 300 and
\* savefig.dpi = 300; right after presentation() font.size = 14,
\* axes.labelsize = 14, axes.titlesize = 16, figure.dpi = 150 and
\* savefig.dpi = 150, whatever calls came before.
C16_ModeSettingsInForce ==
    /\ last_call = "publication" =>
          /\ rcParams["font.size"] = Num(10)
          /\ rcParams["axes.labelsize"] = Num(10)
          /\ rcParams["axes.titlesize"] = Num(11)
          /\ rcParams["xtick.labelsize"] = Num(8)
          /\ rcParams["figure.dpi"] = Num(300)
          /\ rcParams["savefig.dpi"] = Num(300)
    /\ last_call = "presentation" =>
          /\ rcParams["font.size"] = Num(14)
          /\ rcParams["axes.labelsize"] = Num(14)
          /\ rcParams["axes.titlesize"] = Num(16)
          /\ rcParams["figure.dpi"] = Num(150)
          /\ rcParams["savefig.dpi"] = Num(150)

\* presentation() after publication(for_pdf=True): the dpi of the
\* presentation table, the font family the publication call left
C16_Witness ==
    /\ last_call = "presentation" /\ got_mode = "publication"
    /\ rcParams["figure.dpi"] = Num(150)
    /\ rcParams["font.family"] = Name("Myriad Pro")

\* C17: right after reset_style() every rcParam, font.family and
\* figure.figsize among them, has matplotlib's default value and the mode is
\* None, whatever publication() / presentation() calls came before.
C17_ResetRestoresDefaults ==
    last_call = "reset_style" =>
        /\ rcParams = rcParamsDefault
        /\ \A k \in RcKeys : rcParams[k] = rcParamsDefault[k]
        /\ current_mode = "None"

\* reset_style() after a presentation() that get_current_mode() had reported
C17_Witness ==
    /\ last_call = "reset_style" /\ got_mode = "presentation"
    /\ rcParams["font.family"] = Name("sans-serif")
    /\ rcParams["figure.figsize"] = Pair((64 * Scale) \div 10, (48 * Scale) \div 10)

\* C30: a publication() or presentation() call without for_pdf leaves
\* font.family as it was, so a family an earlier for_pdf=True call installed
\* stays across later mode switches; font.family changes only in a call with
\* for_pdf=True or in reset_style(), which puts the default back.
C30_FontFamilyKept ==
    /\ [][(last_call' \in {"publication", "presentation"} /\ ~last_for_pdf')
            => rcParams'["font.family"] = rcParams["font.family"]]_vars
    /\ [][rcParams'["font.family"] # rcParams["font.family"]
            => \/ last_call' \in {"publication", "presentation"} /\ last_for_pdf'
               \/ /\ last_call' = "reset_style"
                  /\ rcParams'["font.family"] = rcParamsDefault["font.family"]]_vars

\* presentation() without for_pdf, with the family of an earlier
\* for_pdf=True call still in force
C30_Witness ==
    /\ last_call = "presentation" /\ ~last_for_pdf
    /\ current_mode = "presentation"
    /\ rcParams["font.size"] = Num(14)
    /\ rcParams["font.family"] = Name("Helvetica")

----------------------------------------------------------------------------
(* Properties of bottom_colorbar *)

Placed == pc = "placed"

\* the middle of the colorbar axes is at x = 0.5
Centred == 2 * cbar_x0 + cbar_width = Scale

C19_AtMostMaxWidth == Placed => cbar_width <= max_width

\* the defaults 0.60 and 0.80 with axes spanning 0.9 of the figure
C19_Witness ==
    /\ Placed /\ min_width = 6 * BarStep /\ max_width = 8 * BarStep
    /\ axes_span = 9 * BarStep
    /\ cbar_width = 8 * BarStep /\ cbar_x0 = BarStep

----------------------------------------------------------------------------
(* Properties of plot_ocean_field *)

OceanCalled == ocean_pc # "none"

\* background, mask land when a wet_mask is given, plot
OceanOrder ==
    <<"background">> \o (IF wet_mask # <<>> THEN <<"mask">> ELSE <<>>)
        \o <<"plot">>

\* C20: plot_ocean_field raises ValueError for every method other than
\* 'pcolormesh', 'contourf' and 'contour' and only for those, before touching
\* the axes: the background colour is unchanged, the data is not masked and
\* nothing is plotted.  For a valid method the steps run in the order set
\* background, mask land (only when wet_mask is given), plot.
C20_MethodCheckedFirst ==
    OceanCalled =>
        IF method \in {"pcolormesh", "contourf", "contour"}
        THEN /\ ocean_pc # "ValueError"
             /\ Len(steps) <= Len(OceanOrder)
             /\ steps = SubSeq(OceanOrder, 1, Len(steps))
             /\ ocean_pc = "returned" =>
                   /\ steps = OceanOrder
                   /\ facecolor = land_color
                   /\ plotted.func = method
                   /\ plotted.data = data
             /\ (wet_mask = <<>> \/ "mask" \notin Range(steps))
                   => data = caller_data
        ELSE /\ ocean_pc \in {"called", "ValueError"}
             /\ facecolor = "white"
             /\ data = caller_data
             /\ plotted = NoPlot
             /\ steps = <<>>

\* method="scatter" with a wet_mask that has a land point: ValueError, and
\* the axes and the data as they were
C20_Witness ==
    /\ ocean_pc = "ValueError" /\ method = "scatter"
    /\ wet_mask = <<1, 0>> /\ facecolor = "white"
    /\ data = caller_data /\ plotted = NoPlot /\ steps = <<>>

\* C21: mask_land returns a copy of data in which every point whose wet_mask
\* value is 1 keeps its value and every other point is NaN, and the caller's
\* data array is not modified.
C21_MaskLandCopies ==
    /\ [](("mask" \in Range(steps)) =>
            /\ Len(data) = Len(caller_data)
            /\ \A i \in 1..Len(data) :
                  data[i] = IF wet_mask[i] = 1 THEN caller_data[i] ELSE NaN)
    /\ [][caller_data' = caller_data]_vars

\* a mask with an ocean point and a point that is neither 0 nor 1
C21_Witness ==
    /\ "mask" \in Range(steps) /\ wet_mask = <<1, 2>>
    /\ caller_data = <<Scale, Scale>> /\ data = <<Scale, NaN>>

====
